---------------------------- MODULE Spec2Model ----------------------------
(***************************************************************************)
(* AttendanceAI: the attendance store (server/storage.ts), the request     *)
(* handlers of the REST API (server routes) and the embedding matcher.     *)
(*                                                                         *)
(* Every handler is an async function: between two awaited store calls the *)
(* handlers of other requests may run.  A handler is therefore a sequence  *)
(* of steps, one per awaited store call, and the steps of the requests in  *)
(* flight interleave freely.                                               *)
(***************************************************************************)
EXTENDS Integers, Sequences, FiniteSets, TLC

(***************************************************************************)
(* Bounds of the model.                                                    *)
(***************************************************************************)
\* calendar days (UTC) the clock runs through
MaxDay == 2
\* requests handled in one behaviour
MaxOps == 2
\* the request slots: two requests are in flight at the same time
Procs == {1, 2}
Days == 1..MaxDay

(***************************************************************************)
(* Text values.  A string is the sequence of its character codes, so that  *)
(* the comparison currentTime > "09:00" is the lexicographic comparison    *)
(* JavaScript makes.  NULL is SQL NULL / JS null.                          *)
(***************************************************************************)
NULL == <<0>>

\* the literal "09:00" of the lateness rule
CUTOFF == <<48, 57, 58, 48, 48>>

\* new Date().toTimeString().slice(0, 5) for minute m of the local day: "HH:MM"
TimeStr(m) ==
    LET h == m \div 60
        mi == m % 60
    IN  <<48 + (h \div 10), 48 + (h % 10), 58, 48 + (mi \div 10), 48 + (mi % 10)>>

\* a > b on JavaScript strings: code unit by code unit, a proper prefix is smaller
StrGT(a, b) ==
    \/ \E i \in 1..Len(a) :
          /\ i <= Len(b)
          /\ a[i] > b[i]
          /\ \A j \in 1..(i - 1) : a[j] = b[j]
    \/ /\ Len(a) > Len(b)
       /\ \A j \in 1..Len(b) : a[j] = b[j]

\* mutant of Falsy: every value is taken as unset
FalsyAlways(s) == TRUE

\* !value on a nullable string column: null and "" are falsy
Falsy(s) == s = NULL \/ s = <<>>

(***************************************************************************)
(* The clock.  An instant is a UTC day and a minute of that UTC day; the   *)
(* deployment's zone is tz minutes east of UTC.                            *)
(***************************************************************************)
MinutesPerDay == 24 * 60

\* the minutes of the UTC day at which requests arrive in the model
SampleMinutes == {540, 1410}

\* the zones of the deployments in the model: UTC and UTC+1
SampleZones == {0, 60}

Instants == [day : Days, min : SampleMinutes]

Before(a, b) == a.day < b.day \/ (a.day = b.day /\ a.min < b.min)

\* new Date().toISOString().split('T')[0]: the UTC calendar date
IsoDate(at) == at.day

\* the calendar date of the instant in the deployment's zone
LocalDate(at, zone) == at.day + ((at.min + zone) \div MinutesPerDay)

\* the minute of the local day
LocalMinute(at, zone) == (at.min + zone) % MinutesPerDay

\* new Date().toTimeString().slice(0, 5): local time of day
LocalTimeStr(at, zone) == TimeStr(LocalMinute(at, zone))

\* The zone rules of a deployment, for the arithmetic Date makes on local days:
\* the zone is before minutes east of UTC up to the UTC minute change (counted
\* from 00:00 UTC of day 1) and after minutes east of UTC from then on.
FixedZone(zone) == [before |-> zone, after |-> zone, change |-> 0]

\* the UTC minutes at which the clocks of a deployment change: 01:00 UTC of a day
ClockChanges == {(k - 1) * MinutesPerDay + 60 : k \in Days}

\* the rules a deployment zone minutes east of UTC may have: no clock change, or
\* the clocks going one hour forward or one hour back
ZoneRules(zone) ==
    {FixedZone(zone)} \cup
    {[before |-> zone, after |-> zone + delta, change |-> c] :
        delta \in {60, 0 - 60}, c \in ClockChanges}

\* the offset of local time from UTC at UTC minute t
Offset(z, t) == IF t < z.change THEN z.before ELSE z.after


(***************************************************************************)
(* The store.                                                              *)
(***************************************************************************)
\* a null number (confidence of a row that has none)
NULLNUM == 0 - 1

\* faceEmbedding column: null, or a text of one of these kinds:
\*   "jsonString"  a JSON string literal, JSON.stringify("sample_embedding_1")
\*   "text"        a text that is no JSON, `embedding_${employeeId}_${Date.now()}`
\*   "array"       a JSON array, v its elements: numbers, JNULL or JTEXT
NoEmbedding == [kind |-> "null", v |-> <<>>]
SampleEmbedding == [kind |-> "jsonString", v |-> <<>>]

\* mutant of HasEmbedding: every row passes the filter
HasEmbeddingAlways(e) == TRUE

\* e.faceEmbedding as a condition: null and "" are falsy, every other text truthy
HasEmbedding(e) == e.faceEmbedding.kind # "null"

\* the rows initializeDatabase inserts into employees, in insertion order
sampleEmployees ==
    <<[faceEmbedding |-> SampleEmbedding],
      [faceEmbedding |-> SampleEmbedding],
      [faceEmbedding |-> SampleEmbedding],
      [faceEmbedding |-> NoEmbedding],
      [faceEmbedding |-> SampleEmbedding]>>

\* the rows initializeDatabase inserts into attendance_records for its today
attendanceData(today) ==
    {[id |-> 1, employeeId |-> 1, date |-> today, checkIn |-> TimeStr(8 * 60 + 45),
      checkOut |-> NULL, status |-> "present", confidence |-> 95],
     [id |-> 2, employeeId |-> 2, date |-> today, checkIn |-> TimeStr(9 * 60 + 15),
      checkOut |-> NULL, status |-> "late", confidence |-> 92],
     [id |-> 3, employeeId |-> 3, date |-> today, checkIn |-> TimeStr(8 * 60 + 30),
      checkOut |-> TimeStr(17 * 60 + 30), status |-> "present", confidence |-> 98],
     [id |-> 4, employeeId |-> 4, date |-> today, checkIn |-> NULL,
      checkOut |-> NULL, status |-> "absent", confidence |-> NULLNUM],
     [id |-> 5, employeeId |-> 5, date |-> today, checkIn |-> TimeStr(8 * 60 + 55),
      checkOut |-> NULL, status |-> "present", confidence |-> 89]}

\* no row: the undefined a select of no row yields
NoRecord ==
    [id |-> 0, employeeId |-> 0, date |-> 0, checkIn |-> NULL, checkOut |-> NULL,
     status |-> "", confidence |-> NULLNUM]

VARIABLES
    employees,    \* table employees: id -> row
    attendance,   \* table attendance_records: set of rows
    now,          \* the clock: the current instant (UTC)
    tz,           \* the deployment's zone, minutes east of UTC
    pc,           \* pc[r]: the step request slot r is at
    req,          \* req[r]: the locals of the handler in slot r
    ops,          \* requests accepted so far
    client        \* the check-in screen: the state of CheckInPage

vars == <<employees, attendance, now, tz, pc, req, ops, client>>

\* mutant of getAttendanceByEmployee: the date condition is lost
getAttendanceByEmployeeAnyDate(att, employeeId, date) ==
    {a \in att : a.employeeId = employeeId}

\* storage.getAttendanceByEmployee: the rows the select matches; the handler
\* takes the first, and SQL fixes no order among them
getAttendanceByEmployee(att, employeeId, date) ==
    {a \in att : a.employeeId = employeeId /\ a.date = date}

\* storage.createAttendance: insert the row under a fresh id
createAttendance(att, id, ins) ==
    att \cup {[id |-> id, employeeId |-> ins.employeeId, date |-> ins.date,
               checkIn |-> ins.checkIn, checkOut |-> ins.checkOut,
               status |-> ins.status, confidence |-> ins.confidence]}

\* mutant of updateAttendance: the where clause is lost
updateAttendanceAllRows(att, id, checkOut) ==
    {[a EXCEPT !.checkOut = checkOut] : a \in att}

\* storage.updateAttendance(id, {checkOut}): set checkOut of the row with that id
updateAttendance(att, id, checkOut) ==
    {IF a.id = id THEN [a EXCEPT !.checkOut = checkOut] ELSE a : a \in att}

\* randomUUID(): an id no row holds
randomUUID ==
    LET used == {a.id : a \in attendance}
    IN  CHOOSE i \in 1..(Cardinality(used) + 1) :
            /\ i \notin used
            /\ \A j \in 1..(i - 1) : j \in used

\* mutant of isLate: >= for >
isLateOrAtCutoff(currentTime) == ~StrGT(CUTOFF, currentTime)

\* const isLate = currentTime > "09:00"
isLate(currentTime) == StrGT(currentTime, CUTOFF)

(***************************************************************************)
(* Requests.                                                               *)
(***************************************************************************)
\* the confidence Math.random() yields in the model: 0.85 + r * 0.14, in percent
ConfidenceSamples == {87}

\* the probes (the face descriptor of the submitted photo) of the model
ProbeSamples == {[kind |-> "array", v |-> <<0, 0>>]}

\* bodies of POST /api/face/recognize
ScanInputs ==
    {[photo |-> FALSE, probe |-> NoEmbedding]} \cup
    {[photo |-> TRUE, probe |-> p] : p \in ProbeSamples}

\* an employee id no row has
UnknownEmployee == 0

\* bodies of POST /api/attendance that insertAttendanceSchema accepts
ManualBodies ==
    {[employeeId |-> 1, date |-> d, checkIn |-> TimeStr(8 * 60), checkOut |-> NULL,
      status |-> "present", confidence |-> NULLNUM] : d \in Days}
    \cup
    {[employeeId |-> 1, date |-> d, checkIn |-> NULL, checkOut |-> TimeStr(17 * 60),
      status |-> "present", confidence |-> NULLNUM] : d \in Days}
    \cup
    {[employeeId |-> UnknownEmployee, date |-> 1, checkIn |-> NULL, checkOut |-> NULL,
      status |-> "absent", confidence |-> NULLNUM]}

NoBody ==
    [employeeId |-> 0, date |-> 0, checkIn |-> NULL, checkOut |-> NULL,
     status |-> "", confidence |-> NULLNUM]

NoInstant == [day |-> 0, min |-> 0]

\* the locals of a handler before it has run
Blank ==
    [kind |-> "none", id |-> 0, email |-> 0, probe |-> NoEmbedding, emps |-> {},
     matched |-> 0,
     confidence |-> NULLNUM, at |-> NoInstant, today |-> 0, currentTime |-> NULL,
     existing |-> NoRecord, body |-> NoBody,
     startDate |-> 0, endDate |-> 0, zone |-> FixedZone(0), stats |-> <<>>,
     resp |-> "none"]

\* a slot is free when no handler runs in it; requests take the lowest free slot
Free(r) == pc[r] = "idle" /\ \A q \in 1..(r - 1) : pc[q] # "idle"

\* the handler in slot r has answered: its locals are gone, the response stays
Answer(r, kind, resp) ==
    /\ req' = [req EXCEPT ![r] = [Blank EXCEPT !.kind = kind, !.resp = resp]]
    /\ pc' = [pc EXCEPT ![r] = "idle"]

(***************************************************************************)
(* The check-in screen (CheckInPage) of the browser.  Time is counted in   *)
(* fifths of a second.                                                     *)
(***************************************************************************)
\* setInterval(..., 1800)
IntervalTicks == 9

\* setTimeout(() => setIsProcessing(false), 2000)
ResetTicks == 10

\* the screen before it is mounted
NoClient ==
    [page |-> "none", isProcessing |-> FALSE, detecting |-> 0, interval |-> 0,
     timers |-> {}, inflight |-> 0, lastResult |-> "null"]

Init ==
    /\ tz \in SampleZones
    /\ now \in {i \in Instants : i.day = 1}
    /\ employees = [id \in 1..Len(sampleEmployees) |-> sampleEmployees[id]]
    /\ attendance = attendanceData(IsoDate(now))
    /\ pc = [r \in Procs |-> "idle"]
    /\ req = [r \in Procs |-> Blank]
    /\ ops = 0
    /\ client = NoClient

\* time passes
Tick ==
    /\ \E i \in Instants : Before(now, i) /\ now' = i
    /\ UNCHANGED <<employees, attendance, tz, client, pc, req, ops>>

(***************************************************************************)
(* POST /api/face/recognize                                                *)
(***************************************************************************)
\* the request arrives: without a photo it is answered 400 at once, else
\* await storage.getAllEmployees(), filtered to the rows with an embedding
ScanGetAllEmployees(r) ==
    /\ Free(r)
    /\ ops < MaxOps
    /\ \E in \in ScanInputs :
          IF in.photo
          THEN /\ req' = [req EXCEPT ![r] =
                             [Blank EXCEPT !.kind = "scan", !.probe = in.probe,
                                           !.emps = {id \in DOMAIN employees :
                                                        HasEmbedding(employees[id])}]]
               /\ pc' = [pc EXCEPT ![r] = "pick"]
          ELSE Answer(r, "scan", "400")
    /\ ops' = ops + 1
    /\ UNCHANGED <<employees, attendance, now, tz, client>>

\* no enrolled employee: a failure result; else a random employee, a random
\* confidence, and the clock read twice in two consecutive statements (taken as
\* one instant): the UTC date and the local time of day
ScanPick(r) ==
    /\ pc[r] = "pick"
    /\ IF req[r].emps = {}
       THEN Answer(r, "scan", "no_employees")
       ELSE /\ \E m \in req[r].emps, c \in ConfidenceSamples :
                  req' = [req EXCEPT ![r].matched = m,
                                     ![r].confidence = c,
                                     ![r].at = now,
                                     ![r].today = IsoDate(now),
                                     ![r].currentTime = LocalTimeStr(now, tz)]
            /\ pc' = [pc EXCEPT ![r] = "lookup"]
    /\ UNCHANGED <<employees, attendance, now, tz, client, ops>>

\* await storage.getAttendanceByEmployee(matchedEmployee.id, today)
ScanLookup(r) ==
    /\ pc[r] = "lookup"
    /\ LET rows == getAttendanceByEmployee(attendance, req[r].matched, req[r].today)
       IN  IF rows = {}
           THEN req' = [req EXCEPT ![r].existing = NoRecord]
           ELSE \E a \in rows : req' = [req EXCEPT ![r].existing = a]
    /\ pc' = [pc EXCEPT ![r] = "write"]
    /\ UNCHANGED <<employees, attendance, now, tz, client, ops>>

\* the three branches on existingAttendance: insert and answer check_in,
\* update and answer check_out, or reject
ScanWrite(r) ==
    /\ pc[r] = "write"
    /\ IF req[r].existing = NoRecord
       THEN /\ attendance' = createAttendance(attendance, randomUUID,
                   [employeeId |-> req[r].matched,
                    date |-> req[r].today,
                    checkIn |-> req[r].currentTime,
                    checkOut |-> NULL,
                    status |-> IF isLate(req[r].currentTime) THEN "late" ELSE "present",
                    confidence |-> req[r].confidence])
            /\ Answer(r, "scan", "check_in")
       ELSE IF Falsy(req[r].existing.checkOut)
       THEN /\ attendance' = updateAttendance(attendance, req[r].existing.id,
                                              req[r].currentTime)
            /\ Answer(r, "scan", "check_out")
       ELSE /\ Answer(r, "scan", "already_complete")
            /\ UNCHANGED attendance
    /\ UNCHANGED <<employees, now, tz, client, ops>>

(***************************************************************************)
(* POST /api/attendance                                                    *)
(***************************************************************************)
\* the request arrives: a body the schema rejects is answered 400 at once, else
\* await storage.getEmployee(employeeId), 404 when there is no such employee
ManualGetEmployee(r) ==
    /\ Free(r)
    /\ ops < MaxOps
    /\ \/ Answer(r, "manual", "400")
       \/ \E b \in ManualBodies :
             IF b.employeeId \in DOMAIN employees
             THEN /\ req' = [req EXCEPT ![r] =
                                [Blank EXCEPT !.kind = "manual", !.body = b]]
                  /\ pc' = [pc EXCEPT ![r] = "insert"]
             ELSE Answer(r, "manual", "404")
    /\ ops' = ops + 1
    /\ UNCHANGED <<employees, attendance, now, tz, client>>

\* storage.createAttendance(result.data): the insert; 201 is sent
ManualInsert(r) ==
    /\ pc[r] = "insert"
    /\ attendance' = createAttendance(attendance, randomUUID, req[r].body)
    /\ Answer(r, "manual", "201")
    /\ UNCHANGED <<employees, now, tz, client, ops>>

Scan(r) ==
    \/ ScanGetAllEmployees(r)
    \/ ScanPick(r)
    \/ ScanLookup(r)
    \/ ScanWrite(r)

Manual(r) ==
    \/ ManualGetEmployee(r)
    \/ ManualInsert(r)

Next ==
    \/ Tick
    \/ \E r \in Procs : Scan(r)
    \/ \E r \in Procs : Manual(r)

Spec == Init /\ [][Next]_vars

\* scans alone: no manual attendance creation
NextScans ==
    \/ Tick
    \/ \E r \in Procs : Scan(r)

SpecScans == Init /\ [][NextScans]_vars

(***************************************************************************)
(* DELETE /api/employees/:id                                               *)
(***************************************************************************)
\* the ids DELETE is called with: a seeded employee and an id no row has
DeleteIds == {1, UnknownEmployee}

\* the table of employees without the row id
WithoutEmployee(emps, id) == [e \in DOMAIN emps \ {id} |-> emps[e]]

\* the request arrives; deleteEmployee, first statement:
\* delete from attendance_records where employee_id = id
DeleteAttendance(r) ==
    /\ Free(r)
    /\ ops < MaxOps
    /\ \E id \in DeleteIds :
          /\ req' = [req EXCEPT ![r] = [Blank EXCEPT !.kind = "delete", !.id = id]]
          /\ attendance' = {a \in attendance : a.employeeId # id}
    /\ pc' = [pc EXCEPT ![r] = "deleteEmployee"]
    /\ ops' = ops + 1
    /\ UNCHANGED <<employees, now, tz, client>>

\* deleteEmployee, second statement: delete from employees where id = id
DeleteEmployeeRow(r) ==
    /\ pc[r] = "deleteEmployee"
    /\ employees' = WithoutEmployee(employees, req[r].id)
    /\ pc' = [pc EXCEPT ![r] = "deleteSelect"]
    /\ UNCHANGED <<attendance, now, tz, client, req, ops>>

\* deleteEmployee, third statement: the select, employee === undefined is
\* returned; the route answers 404 when that is false, else 204
DeleteSelect(r) ==
    /\ pc[r] = "deleteSelect"
    /\ IF req[r].id \notin DOMAIN employees
       THEN Answer(r, "delete", "204")
       ELSE Answer(r, "delete", "404")
    /\ UNCHANGED <<employees, attendance, now, tz, client, ops>>

Delete(r) ==
    \/ DeleteAttendance(r)
    \/ DeleteEmployeeRow(r)
    \/ DeleteSelect(r)

\* deletions next to scans and manual attendance creations, on the seeded store
NextDelete ==
    \/ \E r \in Procs : Delete(r)
    \/ \E r \in Procs : Scan(r)
    \/ \E r \in Procs : Manual(r)

SpecDelete == Init /\ [][NextDelete]_vars

(***************************************************************************)
(* The embedding matcher of the storage layer.  A coordinate is a multiple *)
(* of 1/4 (exact in floating point), held as its numerator; a distance is  *)
(* held as its square in 1/16, or as infinite, or as NaN.                  *)
(***************************************************************************)
\* const THRESHOLD = 0.6, in tenths
THRESHOLD_TENTHS == 6

\* a JSON array as the text of an embedding
Arr(v) == [kind |-> "array", v |-> v]

\* elements of a JSON array that are no numbers: null, and a string that is
\* no numeral
JNULL == 0 - 1
JTEXT == 0 - 2

\* the number that is no number
NaN == 0 - 3

\* Number(x) of an element of a parsed array: null is 0, a string that is no
\* numeral is NaN
Number(x) ==
    IF x = JNULL THEN 0
    ELSE IF x = JTEXT THEN NaN
    ELSE x

\* parseEmbedding: null for null, "", a text that is no JSON and a JSON value
\* that is no array; else the array, each element through Number
parseEmbedding(value) ==
    IF value.kind = "array"
    THEN [isNull |-> FALSE, v |-> [i \in 1..Len(value.v) |-> Number(value.v[i])]]
    ELSE [isNull |-> TRUE, v |-> <<>>]

RECURSIVE SumSq(_, _, _)
\* the loop of euclideanDistance from index i on: sum += d * d
SumSq(a, b, i) ==
    IF i > Len(a) THEN 0
    ELSE (a[i] - b[i]) * (a[i] - b[i]) + SumSq(a, b, i + 1)

\* euclideanDistance: infinite for unequal lengths, NaN when a difference
\* a[i] - b[i] is NaN
euclideanDistance(a, b) ==
    IF Len(a) # Len(b)
    THEN [inf |-> TRUE, nan |-> FALSE, sq |-> 0]
    ELSE IF \E i \in 1..Len(a) : a[i] = NaN \/ b[i] = NaN
    THEN [inf |-> FALSE, nan |-> TRUE, sq |-> 0]
    ELSE [inf |-> FALSE, nan |-> FALSE, sq |-> SumSq(a, b, 1)]

\* mutant of WithinThreshold: the threshold is not applied
WithinAnyDistance(dist) == ~dist.inf /\ ~dist.nan

\* dist <= THRESHOLD: sqrt(sq / 16) <= 6 / 10; false for NaN
WithinThreshold(dist) ==
    /\ ~dist.inf
    /\ ~dist.nan
    /\ 100 * dist.sq <= THRESHOLD_TENTHS * THRESHOLD_TENTHS * 16

\* dist < best.distance, best within the threshold and so a number
Closer(dist, best) == ~dist.inf /\ ~dist.nan /\ dist.sq < best.distance.sq

NoBest == [id |-> 0, distance |-> [inf |-> TRUE, nan |-> FALSE, sq |-> 0]]

RECURSIVE MatchLoop(_, _, _, _)
\* for (const emp of candidates) from row i on; best.id = 0 is best = null
MatchLoop(target, candidates, i, best) ==
    IF i > Len(candidates) THEN best
    ELSE LET emp == candidates[i]
             emb == parseEmbedding(emp.faceEmbedding)
             dist == euclideanDistance(target, emb.v)
         IN  IF emb.isNull
             THEN MatchLoop(target, candidates, i + 1, best)
             ELSE IF WithinThreshold(dist) /\ (best.id = 0 \/ Closer(dist, best))
             THEN MatchLoop(target, candidates, i + 1, [id |-> emp.id, distance |-> dist])
             ELSE MatchLoop(target, candidates, i + 1, best)

\* storage.getEmployeeByEmbedding: the id of the employee returned, 0 for undefined;
\* candidates are the rows of employees in the order the select yields them
getEmployeeByEmbedding(embedding, candidates) ==
    LET target == parseEmbedding(embedding)
    IN  IF target.isNull THEN 0
        ELSE MatchLoop(target.v, candidates, 1, NoBest).id

\* the orders in which a select can yield the rows of employees
RowOrders(emps) ==
    {o \in [1..Cardinality(DOMAIN emps) -> DOMAIN emps] :
        \A i, j \in DOMAIN o : i # j => o[i] # o[j]}

\* db.select().from(employees) in the order o
SelectEmployees(emps, o) ==
    [i \in DOMAIN o |-> [id |-> o[i], faceEmbedding |-> emps[o[i]].faceEmbedding]]

(***************************************************************************)
(* The matcher on its own: any table of employees, any probe, any order of *)
(* the rows.                                                               *)
(***************************************************************************)
\* employees in the tables the matcher is run on
MaxEmployees == 3

\* the coordinates of the vectors, in 1/4
Coords == 0..2

\* the faceEmbedding texts of the tables
TemplateSamples ==
    {NoEmbedding, SampleEmbedding, Arr(<<0, 0>>), Arr(<<2, 2>>), Arr(<<>>),
     Arr(<<JNULL, JNULL>>), Arr(<<JTEXT, 0>>)}

\* the embedding texts the matcher is called with
EmbeddingInputs ==
    {Arr(<<x, y>>) : x \in Coords, y \in Coords}
    \cup {Arr(<<1>>), Arr(<<>>), Arr(<<JTEXT, 0>>), SampleEmbedding,
          [kind |-> "text", v |-> <<>>]}

InitMatch ==
    /\ tz \in SampleZones
    /\ now = [day |-> 1, min |-> 540]
    /\ employees \in [1..MaxEmployees -> [faceEmbedding : TemplateSamples]]
    /\ attendance = {}
    /\ pc = [r \in Procs |-> "idle"]
    /\ req = [r \in Procs |-> Blank]
    /\ ops = 0
    /\ client = NoClient

\* a call of storage.getEmployeeByEmbedding(embedding), one in a behaviour; the
\* value returned is the employee row alone (best?.employee)
MatchCall(r) ==
    /\ Free(r)
    /\ req[r].kind = "none"
    /\ \E e \in EmbeddingInputs, o \in RowOrders(employees) :
          req' = [req EXCEPT ![r] =
                     [Blank EXCEPT !.kind = "match", !.probe = e,
                                   !.matched = getEmployeeByEmbedding(e,
                                                   SelectEmployees(employees, o))]]
    /\ UNCHANGED <<employees, attendance, now, tz, client, pc, ops>>

NextMatch == \E r \in Procs : MatchCall(r)

SpecMatch == InitMatch /\ [][NextMatch]_vars

(***************************************************************************)
(* The statistics of the storage layer, each computed on one state of the  *)
(* store.                                                                  *)
(***************************************************************************)
\* Math.round(n / d * 100) for d > 0
RoundPercent(n, d) == (200 * n + d) \div (2 * d)

\* storage.getDashboardStats(date)
getDashboardStats(emps, att, date) ==
    LET totalEmployees == Cardinality(DOMAIN emps)
        todayRecords == {r \in att : r.date = date}
        presentToday ==
            Cardinality({r \in todayRecords : r.status = "present" \/ r.status = "late"})
        lateArrivals == Cardinality({r \in todayRecords : r.status = "late"})
        onTimeCount == Cardinality({r \in todayRecords : r.status = "present"})
    IN  [presentToday |-> presentToday,
         lateArrivals |-> lateArrivals,
         absences |-> totalEmployees - presentToday,
         onTimePercentage |-> IF presentToday > 0
                              THEN RoundPercent(onTimeCount, presentToday)
                              ELSE 0]

\* new Date("YYYY-MM-DD"): 00:00 UTC of the date, in minutes from 00:00 UTC of day 1
DateOf(date) == (date - 1) * MinutesPerDay

\* d.toISOString().split('T')[0]: the UTC calendar date of UTC minute t
IsoDateOf(t) == (t \div MinutesPerDay) + 1

\* d.setDate(d.getDate() + 1): the same local time of day on the next local day;
\* a local time the clocks skip or repeat is read with the offset before the change
setDate(t, z) ==
    LET local == t + Offset(z, t) + MinutesPerDay
        a == local - z.before
        b == local - z.after
    IN  IF a < z.change THEN a ELSE IF b >= z.change THEN b ELSE a

\* for (let d = new Date(start); d <= end; d.setDate(d.getDate() + 1))
\*     statsByDate.set(d.toISOString().split('T')[0], ...): the keys of the map
RECURSIVE statsByDate(_, _, _)
statsByDate(d, end, z) ==
    IF d <= end
    THEN {IsoDateOf(d)} \cup statsByDate(setDate(d, z), end, z)
    ELSE {}

\* .sort((a, b) => a.date.localeCompare(b.date)) on the keys of the map
SortByDate(dates) ==
    IF dates = {}
    THEN <<>>
    ELSE CHOOSE s \in [1..Cardinality(dates) -> dates] :
             \A i, j \in 1..Cardinality(dates) : i < j => s[i] < s[j]

\* storage.getWeeklyStats(startDate, endDate) in a process with zone rules z:
\* an entry for each key of statsByDate, sorted by date; a record whose date
\* is no key is skipped
getWeeklyStats(emps, att, startDate, endDate, z) ==
    LET totalEmployees == Cardinality(DOMAIN emps)
        records == {r \in att : r.date >= startDate /\ r.date <= endDate}
        dates == SortByDate(statsByDate(DateOf(startDate), DateOf(endDate), z))
    IN  [i \in 1..Len(dates) |->
            LET present == Cardinality({r \in records :
                               r.date = dates[i] /\ r.status = "present"})
                late == Cardinality({r \in records :
                               r.date = dates[i] /\ r.status = "late"})
            IN  [date |-> dates[i],
                 present |-> present,
                 late |-> late,
                 absent |-> totalEmployees - present - late]]

\* a call of storage.getWeeklyStats arrives: the range is read, the zone rules
\* are those of the process, and the employees are selected
WeeklyGetEmployees(r) ==
    /\ Free(r)
    /\ ops < MaxOps
    /\ \E a \in Days, b \in Days, z \in ZoneRules(tz) :
          req' = [req EXCEPT ![r] =
                     [Blank EXCEPT !.kind = "weekly", !.startDate = a,
                                   !.endDate = b, !.zone = z,
                                   !.emps = employees]]
    /\ pc' = [pc EXCEPT ![r] = "weeklyRecords"]
    /\ ops' = ops + 1
    /\ UNCHANGED <<employees, attendance, now, tz, client>>

\* the records of the range are selected and the entries are returned
WeeklyGetRecords(r) ==
    /\ pc[r] = "weeklyRecords"
    /\ req' = [req EXCEPT ![r] =
                  [Blank EXCEPT !.kind = "weekly", !.resp = "200",
                                !.stats = getWeeklyStats(req[r].emps, attendance,
                                              req[r].startDate, req[r].endDate,
                                              req[r].zone)]]
    /\ pc' = [pc EXCEPT ![r] = "idle"]
    /\ UNCHANGED <<employees, attendance, now, tz, client, ops>>

Weekly(r) == WeeklyGetEmployees(r) \/ WeeklyGetRecords(r)

NextStats ==
    \/ \E r \in Procs : Weekly(r)
    \/ \E r \in Procs : Manual(r)

SpecStats == Init /\ [][NextStats]_vars

(***************************************************************************)
(* The requests on tables other than the seeded one: no employee has a    *)
(* template, or employee 1 alone has one, the vector of the probe.         *)
(***************************************************************************)
\* the tables of employees: none enrolled, or employee 1 alone
EnrolTables ==
    {[id \in 1..MaxEmployees |->
         [faceEmbedding |-> IF id <= k THEN Arr(<<0, 0>>) ELSE NoEmbedding]] :
     k \in 0..1}

InitEnrol ==
    /\ tz \in SampleZones
    /\ now \in {i \in Instants : i.day = 1}
    /\ employees \in EnrolTables
    /\ attendance = {}
    /\ pc = [r \in Procs |-> "idle"]
    /\ req = [r \in Procs |-> Blank]
    /\ ops = 0
    /\ client = NoClient

NextEnrol ==
    \/ Tick
    \/ \E r \in Procs : Scan(r)
    \/ \E r \in Procs : Manual(r)

SpecEnrol == InitEnrol /\ [][NextEnrol]_vars

(***************************************************************************)
(* The steps of the check-in screen: the page that scans on a timer and    *)
(* the page with the capture button.  The server is the environment: a     *)
(* request sent is answered, or fails, at any later time.                  *)
(***************************************************************************)
\* requests and detections the screen may have under way at once
MaxInFlight == 2

\* the ways an attempt of the scanning page ends once detectSingleFace has
\* settled: no face, a match (the request is sent), no match, an exception
DetectOutcomes == {"no_face", "matched", "unknown", "error"}

\* the screen as mounted, camera and models ready
ClientStarts ==
    {[NoClient EXCEPT !.page = "auto", !.interval = IntervalTicks],
     [NoClient EXCEPT !.page = "button"]}

\* mutant of setIsProcessing: the state is never cleared
setIsProcessingOnly(c, v) ==
    IF v THEN [c EXCEPT !.isProcessing = TRUE] ELSE c

\* setIsProcessing(v); when the value changes the scanning page renders again
\* and its effect clears the interval and sets a new one
setIsProcessing(c, v) ==
    [c EXCEPT !.isProcessing = v,
              !.interval = IF c.page = "auto" /\ c.isProcessing # v
                           THEN IntervalTicks ELSE @]

\* finally { setTimeout(() => setIsProcessing(false), 2000) }
setTimeout(c) == [c EXCEPT !.timers = @ \cup {ResetTicks}]

\* the unchanged server
ServerUnchanged == UNCHANGED <<employees, attendance, now, tz, pc, req, ops>>

\* a fifth of a second passes: no interval and no timer is due
ClientTime ==
    /\ client.page = "auto"
    /\ client.interval > 0
    /\ \A t \in client.timers : t > 0
    /\ client' = [client EXCEPT !.interval = @ - 1,
                                !.timers = {t - 1 : t \in @}]
    /\ ServerUnchanged

\* the interval callback: if (!isProcessing) captureAndRecognize(), which
\* sets isProcessing and awaits detectSingleFace, or, with no valid
\* embedding to compare, clears isProcessing again and returns
IntervalFires ==
    /\ client.page = "auto"
    /\ client.interval = 0
    /\ LET c == [client EXCEPT !.interval = IntervalTicks]
       IN  IF c.isProcessing \/ c.detecting + c.inflight >= MaxInFlight
           THEN client' = c
           ELSE \/ client' = [setIsProcessing(c, TRUE) EXCEPT
                                 !.detecting = @ + 1, !.lastResult = "null"]
                \/ client' = setTimeout([c EXCEPT !.lastResult = "no_embeddings"])
    /\ ServerUnchanged

\* detectSingleFace settles and the rest of captureAndRecognize runs
DetectSettles ==
    /\ client.detecting > 0
    /\ \E o \in DetectOutcomes :
          LET c == [client EXCEPT !.detecting = @ - 1, !.lastResult = o]
          IN  client' = setTimeout(
                  IF o = "no_face" THEN setIsProcessing(c, FALSE)
                  ELSE IF o = "matched" THEN [c EXCEPT !.inflight = @ + 1]
                  ELSE c)
    /\ ServerUnchanged

\* a timer set by an attempt is due
TimerFires ==
    /\ 0 \in client.timers
    /\ client' = setIsProcessing([client EXCEPT !.timers = @ \ {0}], FALSE)
    /\ ServerUnchanged

\* the capture button is clicked: captureAndRecognize of the button page
Click ==
    /\ client.page = "button"
    /\ ~client.isProcessing
    /\ client.inflight < MaxInFlight
    /\ client' = [setIsProcessing(client, TRUE) EXCEPT
                     !.inflight = @ + 1, !.lastResult = "null"]
    /\ ServerUnchanged

\* a request is answered or fails: onSuccess or onError of recognizeMutation
Settles ==
    /\ client.inflight > 0
    /\ \E o \in {"success", "rejected", "request_error"} :
          client' = setIsProcessing(
                        [client EXCEPT !.inflight = @ - 1, !.lastResult = o], FALSE)
    /\ ServerUnchanged

InitClient ==
    /\ tz = 0
    /\ now = [day |-> 1, min |-> 540]
    /\ employees = [id \in 1..Len(sampleEmployees) |-> sampleEmployees[id]]
    /\ attendance = attendanceData(1)
    /\ pc = [r \in Procs |-> "idle"]
    /\ req = [r \in Procs |-> Blank]
    /\ ops = 0
    /\ client \in ClientStarts

NextClient ==
    \/ ClientTime
    \/ IntervalFires
    \/ DetectSettles
    \/ TimerFires
    \/ Click
    \/ Settles

\* requests settle, detections settle, timers fire, time passes
SpecClient ==
    /\ InitClient
    /\ [][NextClient]_vars
    /\ WF_vars(ClientTime)
    /\ WF_vars(IntervalFires)
    /\ WF_vars(DetectSettles)
    /\ WF_vars(TimerFires)
    /\ WF_vars(Settles)

(***************************************************************************)
(* POST /api/employees, PATCH /api/employees/:id and POST                  *)
(* /api/face/embedding, on employees that carry their email.  An email is  *)
(* a number: 0 the empty string, 1..5 those of the seeded employees.       *)
(***************************************************************************)
\* the empty string, which the schema accepts as an email
EmptyEmail == 0

\* an email no seeded employee has
NewEmail == Len(sampleEmployees) + 1

\* the seeded employees with their emails
employeesWithEmail ==
    [id \in 1..Len(sampleEmployees) |->
        [faceEmbedding |-> sampleEmployees[id].faceEmbedding, email |-> id]]

\* the emails of the request bodies
BodyEmails == {EmptyEmail, 1, NewEmail}

\* the ids PATCH and POST /api/face/embedding are called with
AdminIds == {1, 2, UnknownEmployee}

\* storage.getEmployeeByEmail(email): the id of the row, 0 for undefined
getEmployeeByEmail(emps, email) ==
    IF \E id \in DOMAIN emps : emps[id].email = email
    THEN CHOOSE id \in DOMAIN emps : emps[id].email = email
    ELSE 0

\* the unique index on employees.email refuses the email for the row id
UniqueViolation(emps, id, email) ==
    \E other \in DOMAIN emps \ {id} : emps[other].email = email

\* randomUUID() for an employee: an id no row holds
randomEmployeeUUID ==
    CHOOSE i \in 1..(Cardinality(DOMAIN employees) + 1) :
        /\ i \notin DOMAIN employees
        /\ \A j \in 1..(i - 1) : j \in DOMAIN employees

\* the table with one more row
WithEmployee(emps, id, row) ==
    [e \in DOMAIN emps \cup {id} |-> IF e = id THEN row ELSE emps[e]]

\* POST /api/employees arrives: 400 for a body the schema rejects, else await
\* storage.getEmployeeByEmail, 409 when a row has the email
CreateGetByEmail(r) ==
    /\ Free(r)
    /\ ops < MaxOps
    /\ \/ Answer(r, "create", "400")
       \/ \E email \in BodyEmails :
             IF getEmployeeByEmail(employees, email) # 0
             THEN Answer(r, "create", "409")
             ELSE /\ req' = [req EXCEPT ![r] =
                                [Blank EXCEPT !.kind = "create", !.email = email]]
                  /\ pc' = [pc EXCEPT ![r] = "createEmployee"]
    /\ ops' = ops + 1
    /\ UNCHANGED <<employees, attendance, now, tz, client>>

\* storage.createEmployee: the insert, which throws on the unique index (500),
\* and the select of the new row (201)
CreateEmployee(r) ==
    /\ pc[r] = "createEmployee"
    /\ IF UniqueViolation(employees, 0, req[r].email)
       THEN /\ Answer(r, "create", "500")
            /\ UNCHANGED employees
       ELSE /\ employees' = WithEmployee(employees, randomEmployeeUUID,
                               [faceEmbedding |-> NoEmbedding, email |-> req[r].email])
            /\ Answer(r, "create", "201")
    /\ UNCHANGED <<attendance, now, tz, client, ops>>

\* PATCH /api/employees/:id arrives with an email in its body: for a truthy
\* email await storage.getEmployeeByEmail, 409 when another row has it; for
\* the empty string updateEmployee is called at once
PatchGetByEmail(r) ==
    /\ Free(r)
    /\ ops < MaxOps
    /\ \E id \in AdminIds, email \in BodyEmails :
          LET existing == getEmployeeByEmail(employees, email)
          IN  IF email # EmptyEmail /\ existing # 0 /\ existing # id
              THEN Answer(r, "patch", "409")
              ELSE /\ req' = [req EXCEPT ![r] =
                                 [Blank EXCEPT !.kind = "patch", !.id = id,
                                               !.email = email]]
                   /\ pc' = [pc EXCEPT ![r] = "updateEmployee"]
    /\ ops' = ops + 1
    /\ UNCHANGED <<employees, attendance, now, tz, client>>

\* storage.updateEmployee: the update, which throws on the unique index (500),
\* and the select: 404 when there is no such row, else the row
PatchUpdate(r) ==
    /\ pc[r] = "updateEmployee"
    /\ IF req[r].id \notin DOMAIN employees
       THEN /\ Answer(r, "patch", "404")
            /\ UNCHANGED employees
       ELSE IF UniqueViolation(employees, req[r].id, req[r].email)
       THEN /\ Answer(r, "patch", "500")
            /\ UNCHANGED employees
       ELSE /\ employees' = [employees EXCEPT ![req[r].id].email = req[r].email]
            /\ Answer(r, "patch", "200")
    /\ UNCHANGED <<attendance, now, tz, client, ops>>

\* POST /api/face/embedding arrives: 400 without photo or employeeId, else
\* await storage.getEmployee, 404 when there is no such employee
EmbeddingGetEmployee(r) ==
    /\ Free(r)
    /\ ops < MaxOps
    /\ \/ Answer(r, "embedding", "400")
       \/ \E id \in AdminIds :
             IF id \in DOMAIN employees
             THEN /\ req' = [req EXCEPT ![r] =
                                [Blank EXCEPT !.kind = "embedding", !.id = id]]
                  /\ pc' = [pc EXCEPT ![r] = "embeddingUpdate"]
             ELSE Answer(r, "embedding", "404")
    /\ ops' = ops + 1
    /\ UNCHANGED <<employees, attendance, now, tz, client>>

\* const fakeEmbedding = `embedding_${employeeId}_${Date.now()}`, a text that
\* is no JSON
fakeEmbedding == [kind |-> "text", v |-> <<>>]

\* storage.updateEmployee(employeeId, {faceEmbedding: fakeEmbedding, ...});
\* success is answered
EmbeddingUpdate(r) ==
    /\ pc[r] = "embeddingUpdate"
    /\ employees' = IF req[r].id \in DOMAIN employees
                    THEN [employees EXCEPT ![req[r].id].faceEmbedding = fakeEmbedding]
                    ELSE employees
    /\ req' = [req EXCEPT ![r] = [Blank EXCEPT !.kind = "embedding", !.id = req[r].id,
                                               !.resp = "200"]]
    /\ pc' = [pc EXCEPT ![r] = "idle"]
    /\ UNCHANGED <<attendance, now, tz, client, ops>>

InitAdmin ==
    /\ tz = 0
    /\ now = [day |-> 1, min |-> 540]
    /\ employees = employeesWithEmail
    /\ attendance = attendanceData(1)
    /\ pc = [r \in Procs |-> "idle"]
    /\ req = [r \in Procs |-> Blank]
    /\ ops = 0
    /\ client = NoClient

NextAdmin ==
    \/ \E r \in Procs : CreateGetByEmail(r)
    \/ \E r \in Procs : CreateEmployee(r)
    \/ \E r \in Procs : PatchGetByEmail(r)
    \/ \E r \in Procs : PatchUpdate(r)
    \/ \E r \in Procs : EmbeddingGetEmployee(r)
    \/ \E r \in Procs : EmbeddingUpdate(r)

SpecAdmin == InitAdmin /\ [][NextAdmin]_vars

(***************************************************************************)
(* Properties of the attendance recorder and of the matcher.               *)
(***************************************************************************)
\* the handler in slot r takes its write step (insert, update or reject)
ScanWrites(r) == pc[r] = "write" /\ pc'[r] # "write"

\* the handler in slot r takes its lookup step
ScanLooksUp(r) == pc[r] = "lookup" /\ pc'[r] = "write"

\* the local time of day, as "HH:MM", of the instant the scan in slot r read
ScanTime(r) == TimeStr(LocalMinute(req[r].at, tz))

\* the state of (employee, date) in the recorder's state machine
StateOf(att, employeeId, date) ==
    LET rows == {a \in att : a.employeeId = employeeId /\ a.date = date}
    IN  IF rows = {} THEN "NoRecord"
        ELSE IF \E a \in rows : a.checkOut = NULL THEN "CheckedIn"
        ELSE "Complete"

\* C1: the store holds at most one attendance record for each (employee id,
\* date) pair, after any sequence of scans, manual creations and the seeding.
OneRecordPerEmployeeDate ==
    \A a, b \in attendance :
        (a.employeeId = b.employeeId /\ a.date = b.date) => a = b

\* C2: under scans alone, a scan that finds no record for (employee, date) and
\* checks in leaves exactly one record for that (employee, date), also when
\* another scan of the same employee and date is handled concurrently.
NoDuplicateCheckIn ==
    [][\A r \in Procs :
          (ScanWrites(r) /\ req[r].existing = NoRecord) =>
              Cardinality({a \in attendance' : /\ a.employeeId = req[r].matched
                                               /\ a.date = req[r].today}) = 1]_vars

\* C3: a scan whose lookup finds no record for (employee, date) creates exactly
\* one record, for that employee and date, with checkIn the scan time, checkOut
\* unset, status late if the local time of day is strictly after 09:00 and
\* present otherwise, and answers check_in.
ScanCreatesCheckIn ==
    [][\A r \in Procs :
          (ScanWrites(r) /\ req[r].existing = NoRecord) =>
              /\ \E a \in attendance' \ attendance :
                    /\ attendance' = attendance \cup {a}
                    /\ a.id \notin {b.id : b \in attendance}
                    /\ a.employeeId = req[r].matched
                    /\ a.date = req[r].today
                    /\ a.checkIn = ScanTime(r)
                    /\ a.checkOut = NULL
                    /\ a.status = IF LocalMinute(req[r].at, tz) > 9 * 60
                                  THEN "late" ELSE "present"
              /\ req'[r].resp = "check_in"]_vars

\* C3 witness: a scan at exactly 09:00 local time has checked in as present
CheckedInAtCutoff ==
    \E r \in Procs, a \in attendance :
        /\ req[r].resp = "check_in"
        /\ a.checkIn = CUTOFF
        /\ a.checkOut = NULL
        /\ a.status = "present"
        /\ a.confidence \in ConfidenceSamples

\* C4: a scan whose lookup finds a record with checkOut unset sets the checkOut
\* of that record to the scan time, leaves its other columns and every other
\* record as they are, creates no record, and answers check_out.
ScanRecordsCheckOut ==
    [][\A r \in Procs :
          (ScanWrites(r) /\ req[r].existing # NoRecord
                         /\ req[r].existing.checkOut = NULL) =>
              /\ {a.id : a \in attendance'} = {a.id : a \in attendance}
              /\ Cardinality(attendance') = Cardinality(attendance)
              /\ \A a \in attendance :
                    IF a.id = req[r].existing.id
                    THEN [a EXCEPT !.checkOut = ScanTime(r)] \in attendance'
                    ELSE a \in attendance'
              /\ req'[r].resp = "check_out"]_vars

\* C4 witness: the seeded check-in of employee 1 has been checked out by a scan
SeededCheckInCheckedOut ==
    \E r \in Procs, a \in attendance :
        /\ req[r].resp = "check_out"
        /\ a.id = 1
        /\ a.employeeId = 1
        /\ a.checkIn = TimeStr(8 * 60 + 45)
        /\ a.checkOut # NULL
        /\ a.status = "present"

\* C5: a scan whose lookup finds a record with checkIn and checkOut both set
\* is answered with the failure "already checked in and out" and creates and
\* changes no record, every time.
CompleteIsRejected ==
    [][\A r \in Procs :
          (ScanWrites(r) /\ req[r].existing # NoRecord
                         /\ req[r].existing.checkIn # NULL
                         /\ req[r].existing.checkOut # NULL) =>
              /\ attendance' = attendance
              /\ req'[r].resp = "already_complete"]_vars

\* C5 witness: two scans have been rejected and the seeded rows are all as seeded
RejectedTwice ==
    /\ \A r \in Procs : pc[r] = "idle" /\ req[r].resp = "already_complete"
    /\ \E d \in Days : attendance = attendanceData(d)

\* C6: under scans alone the state of an (employee, date) only moves forward:
\* a scan is answered check_in only in NoRecord and moves it to CheckedIn, is
\* answered check_out only in CheckedIn and moves it to Complete, and in
\* Complete it is rejected and changes nothing.
ScansFollowStateMachine ==
    [][\A r \in Procs :
          ScanWrites(r) =>
              LET before == StateOf(attendance, req[r].matched, req[r].today)
                  after == StateOf(attendance', req[r].matched, req[r].today)
              IN  /\ req'[r].resp = "check_in" =>
                        before = "NoRecord" /\ after = "CheckedIn"
                  /\ req'[r].resp = "check_out" =>
                        before = "CheckedIn" /\ after = "Complete"
                  /\ before = "Complete" =>
                        req'[r].resp = "already_complete" /\ attendance' = attendance]_vars

\* C7: a scan creates or changes attendance only of the employee the matcher
\* resolves from the probe against the enrolled templates; when the matcher
\* rejects the probe, no record is created or changed.
ScanFollowsMatcher ==
    [][\A r \in Procs :
          ScanWrites(r) =>
              \A a \in attendance' \ attendance :
                  \E o \in RowOrders(employees) :
                      getEmployeeByEmbedding(req[r].probe,
                          SelectEmployees(employees, o)) = a.employeeId]_vars

\* C8: the date a scan is looked up and recorded under is the calendar date of
\* the scan instant in the deployment's local time zone.
ScanDateIsLocalDate ==
    \A r \in Procs :
        pc[r] \in {"lookup", "write"} => req[r].today = LocalDate(req[r].at, tz)

DistanceTo(probe, id) ==
    euclideanDistance(parseEmbedding(probe).v, parseEmbedding(employees[id].faceEmbedding).v)

\* the template of employee id is a vector farther than the threshold, or no
\* vector of the probe's length at all
Farther(probe, id) ==
    \/ parseEmbedding(employees[id].faceEmbedding).isNull
    \/ DistanceTo(probe, id).inf
    \/ DistanceTo(probe, id).nan
    \/ 100 * DistanceTo(probe, id).sq > 36 * 16

\* C10: the matcher never returns an employee whose template is farther than
\* the threshold (0.6) from the probe; when every template is farther, it
\* returns no employee.
NeverBeyondThreshold ==
    \A r \in Procs :
        req[r].kind = "match" =>
            /\ req[r].matched # 0 =>
                  /\ req[r].matched \in DOMAIN employees
                  /\ ~Farther(req[r].probe, req[r].matched)
            /\ (\A id \in DOMAIN employees : Farther(req[r].probe, id)) =>
                  req[r].matched = 0

\* C10 witness: a template within the threshold was returned while another
\* template of the probe's length lies beyond it
MatchedWithFartherPresent ==
    \E r \in Procs, id \in DOMAIN employees :
        /\ req[r].kind = "match"
        /\ req[r].matched \notin {0, id}
        /\ ~DistanceTo(req[r].probe, id).inf
        /\ ~DistanceTo(req[r].probe, id).nan
        /\ ~parseEmbedding(employees[id].faceEmbedding).isNull
        /\ Farther(req[r].probe, id)

\* the probe is a vector and the template of employee id lies within the
\* threshold of it
Within(probe, id) == ~parseEmbedding(probe).isNull /\ ~Farther(probe, id)

\* C11: when some enrolled template of the probe's length lies within the
\* threshold, the matcher returns the employee whose template is at the minimum
\* distance from the probe among all enrolled templates, and returns the same
\* employee whatever the order in which the rows of employees are scanned.
MatcherReturnsNearest ==
    \A r \in Procs :
        (/\ req[r].kind = "match"
         /\ \E id \in DOMAIN employees : Within(req[r].probe, id)) =>
            /\ req[r].matched \in DOMAIN employees
            /\ \A id \in DOMAIN employees :
                  Within(req[r].probe, id) =>
                      DistanceTo(req[r].probe, req[r].matched).sq
                          <= DistanceTo(req[r].probe, id).sq
            /\ \A o \in RowOrders(employees) :
                  getEmployeeByEmbedding(req[r].probe, SelectEmployees(employees, o))
                      = req[r].matched

\* the template of employee id is at the minimum distance from the probe among
\* the templates within the threshold
Nearest(probe, id) ==
    /\ Within(probe, id)
    /\ \A other \in DOMAIN employees :
          Within(probe, other) =>
              DistanceTo(probe, id).sq <= DistanceTo(probe, other).sq

\* C12: when the templates of two distinct employees are at the same minimum
\* distance from the probe, within the threshold, the matcher returns neither
\* of them (nor any other employee).
TiesAreRejected ==
    \A r \in Procs :
        (/\ req[r].kind = "match"
         /\ \E a, b \in DOMAIN employees :
               a # b /\ Nearest(req[r].probe, a) /\ Nearest(req[r].probe, b)) =>
            req[r].matched = 0

\* the probe is the very text stored as the template of employee id, and of no
\* other employee
ProbeIsTemplateOf(probe, id) ==
    /\ HasEmbedding(employees[id])
    /\ probe = employees[id].faceEmbedding
    /\ \A other \in DOMAIN employees \ {id} : employees[other].faceEmbedding # probe

\* C13: for a probe equal to the stored template of one enrolled employee, and
\* of no other, the matcher returns that employee, at distance 0 and with the
\* confidence 1.0 (100 in hundredths).  The value a call returns is the
\* employee row alone, so the confidence of a match call is never set.
ExactProbeMatches ==
    \A r \in Procs, id \in DOMAIN employees :
        (req[r].kind = "match" /\ ProbeIsTemplateOf(req[r].probe, id)) =>
            /\ req[r].matched = id
            /\ DistanceTo(req[r].probe, id) = [inf |-> FALSE, nan |-> FALSE, sq |-> 0]
            /\ req[r].confidence = 100

\* no employee has a stored face template
NoneEnrolled == \A id \in DOMAIN employees : employees[id].faceEmbedding = NoEmbedding

\* the recognition handler in slot r takes a step
ScanSteps(r) == req'[r].kind = "scan" /\ (pc'[r] # pc[r] \/ req'[r] # req[r])

\* C14: when no employee has a stored face template, every recognition attempt
\* ends with a result value (the failure result, or 400 for a body without a
\* photo), and no step of it creates or changes an attendance record.
NoTemplateScansRejected ==
    [][NoneEnrolled =>
          \A r \in Procs :
              /\ ScanSteps(r) =>
                    /\ attendance' = attendance
                    /\ pc'[r] \in {"pick", "idle"}
                    /\ pc'[r] = "idle" => req'[r].resp \in {"no_employees", "400"}
              /\ (pc[r] = "pick" /\ pc'[r] # "pick") => req'[r].resp = "no_employees"]_vars

\* C14 witness: a scan with a photo was answered with the failure result while
\* no employee has a template and the store holds an attendance record
RejectedWithNoTemplate ==
    \E r \in Procs :
        /\ NoneEnrolled
        /\ req[r].kind = "scan"
        /\ req[r].resp = "no_employees"
        /\ attendance # {}

\* the stored text is a JSON array whose elements are all numbers
NumericVector(value) ==
    /\ value.kind = "array"
    /\ \A i \in 1..Len(value.v) : value.v[i] \notin {JNULL, JTEXT}

\* the template of employee id cannot be compared with the probe: it is no
\* numeric vector, or its length is not the probe's
NonComparable(probe, id) ==
    \/ ~NumericVector(employees[id].faceEmbedding)
    \/ Len(employees[id].faceEmbedding.v) # Len(probe.v)

\* C15: a template that is no numeric vector, or whose length differs from the
\* probe's, is never returned as the match, and does not keep the matcher from
\* comparing the other templates: when a comparable template lies within the
\* threshold, a comparable employee is returned.
NonComparableNeverMatched ==
    \A r \in Procs :
        (req[r].kind = "match" /\ NumericVector(req[r].probe)) =>
            /\ req[r].matched # 0 =>
                  ~NonComparable(req[r].probe, req[r].matched)
            /\ (\E id \in DOMAIN employees :
                   /\ ~NonComparable(req[r].probe, id)
                   /\ Within(req[r].probe, id)) => req[r].matched # 0

\* C16: a probe of length zero never yields a matched employee, whatever the
\* templates enrolled, a template that is itself the empty vector included.
EmptyProbeNeverMatches ==
    \A r \in Procs :
        (req[r].kind = "match" /\ req[r].probe = Arr(<<>>)) => req[r].matched = 0

\* the recognition handler in slot r has resolved the probe to an employee
Resolved(r) == pc[r] \in {"lookup", "write"}

\* C17: resolving a probe to an employee changes no employee and no attendance
\* record, and two resolutions of the same probe against the same enrolled set
\* yield the same employee.
ResolutionIsPure ==
    [][/\ \A r \in Procs :
             (pc[r] = "pick" /\ pc'[r] # "pick") =>
                 employees' = employees /\ attendance' = attendance
       /\ \A r, q \in Procs :
             (/\ Resolved(r)' /\ Resolved(q)'
              /\ req'[r].probe = req'[q].probe
              /\ req'[r].emps = req'[q].emps) =>
                 req'[r].matched = req'[q].matched]_vars

\* c, in hundredths, is max(0, 1 - distance / threshold) for the distance dist:
\* 0 from the threshold on, else (100 - c) * 4 * THRESHOLD_TENTHS is 1000 times
\* the root of dist.sq
ConfidenceFor(c, dist) ==
    /\ ~dist.inf
    /\ ~dist.nan
    /\ c \in 0..100
    /\ IF 100 * dist.sq >= THRESHOLD_TENTHS * THRESHOLD_TENTHS * 16
       THEN c = 0
       ELSE ((100 - c) * 4 * THRESHOLD_TENTHS) * ((100 - c) * 4 * THRESHOLD_TENTHS)
                = 1000000 * dist.sq

\* C18: the confidence a scan stores on the check-in record it creates is
\* max(0, 1 - distance / threshold) for the distance of the probe to the
\* template of the matched employee (so 1.0 at distance 0).
StoredConfidenceFollowsDistance ==
    [][\A r \in Procs :
          (ScanWrites(r) /\ req[r].existing = NoRecord) =>
              \A a \in attendance' \ attendance :
                  ConfidenceFor(a.confidence, DistanceTo(req[r].probe, req[r].matched))]_vars

\* the employees that have no attendance record for the date
WithoutRecord(date) ==
    {id \in DOMAIN employees : \A a \in attendance : ~(a.employeeId = id /\ a.date = date)}

\* C19: for every date, the absences getDashboardStats reports, and the
\* absent count of the date in getWeeklyStats, are the number of employees
\* that have no attendance record for that date.
AbsencesAreMissingRecords ==
    \A d \in Days :
        /\ getDashboardStats(employees, attendance, d).absences
               = Cardinality(WithoutRecord(d))
        /\ getWeeklyStats(employees, attendance, 1, MaxDay, FixedZone(tz))[d].absent
               = Cardinality(WithoutRecord(d))

\* the scan in slot r, taking its write step, stores no absence: a record it
\* creates has status "present" or "late" and a check-in time, and a record it
\* updates keeps its status
ScanStoresNoAbsence(r) ==
    ScanWrites(r) =>
        \A b \in attendance' :
            IF \E a \in attendance : a.id = b.id
            THEN \A a \in attendance : a.id = b.id => b.status = a.status
            ELSE b.status \in {"present", "late"} /\ b.checkIn # NULL

\* C20: no scan stores absence, and the store holds no row with status
\* "absent" that a component wrote up front.
ScanNeverStoresAbsence ==
    [][/\ \A r \in Procs : ScanStoresNoAbsence(r)
       /\ \A a \in attendance : a.status # "absent"]_vars

\* the deletion in slot r takes a step on the store
DeleteSteps(r) ==
    \/ pc[r] = "idle" /\ pc'[r] = "deleteEmployee"
    \/ pc[r] = "deleteEmployee" /\ pc'[r] = "deleteSelect"

\* deleteEmployee completes in slot r
DeleteCompletes(r) == pc[r] = "deleteSelect" /\ pc'[r] = "idle"

\* C21: when deleteEmployee(id) completes, the employee is gone and no
\* attendance record with that employee id remains; the steps of the deletion
\* leave the other employees and the records of the other employees unchanged.
DeleteCascades ==
    [][\A r \in Procs :
          /\ DeleteCompletes(r) =>
                /\ req[r].id \notin DOMAIN employees'
                /\ \A a \in attendance' : a.employeeId # req[r].id
          /\ DeleteSteps(r) =>
                /\ \A e \in DOMAIN employees \ {req'[r].id} :
                      e \in DOMAIN employees' /\ employees'[e] = employees[e]
                /\ DOMAIN employees' \subseteq DOMAIN employees
                /\ {a \in attendance' : a.employeeId # req'[r].id}
                       = {a \in attendance : a.employeeId # req'[r].id}]_vars

\* C22: a DELETE for an id that matches no employee is answered 404, not 204,
\* and none of its steps changes an employee or an attendance record.
DeleteUnknownIs404 ==
    [][\A r \in Procs :
          /\ (DeleteCompletes(r) /\ req[r].id = UnknownEmployee) =>
                req'[r].resp = "404"
          /\ (DeleteSteps(r) /\ req'[r].id = UnknownEmployee) =>
                employees' = employees /\ attendance' = attendance
          /\ DeleteCompletes(r) =>
                employees' = employees /\ attendance' = attendance]_vars

\* C23: the check-in screen never has two recognition requests in flight: no
\* request is sent before the response or the error of the previous one has
\* been handled.
OneRequestInFlight == client.inflight <= 1

\* the enrolment in slot r answers success
EnrolSucceeds(r) ==
    pc[r] = "embeddingUpdate" /\ pc'[r] = "idle" /\ req[r].id \in DOMAIN employees'

\* C24: after an employee is enrolled through POST /api/face/embedding, the
\* stored template is a numeric vector of length above zero, and the matcher
\* resolves a probe equal to the stored template to that employee.
EnrolThenMatch ==
    [][\A r \in Procs :
          EnrolSucceeds(r) =>
              LET stored == employees'[req[r].id].faceEmbedding
              IN  /\ NumericVector(stored)
                  /\ Len(stored.v) > 0
                  /\ \A o \in RowOrders(employees') :
                        getEmployeeByEmbedding(stored, SelectEmployees(employees', o))
                            = req[r].id]_vars

\* the create or update in slot r completes its write step
EmployeeWriteCompletes(r) ==
    pc[r] \in {"createEmployee", "updateEmployee"} /\ pc'[r] = "idle"

\* the write in slot r would give an employee (a new one, or the existing one
\* it updates) the email of another employee
TakesEmailOfAnother(r) ==
    IF pc[r] = "createEmployee"
    THEN \E other \in DOMAIN employees : employees[other].email = req[r].email
    ELSE /\ req[r].id \in DOMAIN employees
         /\ \E other \in DOMAIN employees \ {req[r].id} :
                employees[other].email = req[r].email

\* C25: no two employees share an email; a create or update that would give
\* an employee the email of another employee is answered 409 and changes no
\* employee; a PATCH that keeps the employee's own email is accepted.
EmailsStayUnique ==
    [][/\ \A a, b \in DOMAIN employees :
             a # b => employees[a].email # employees[b].email
       /\ \A r \in Procs :
             EmployeeWriteCompletes(r) =>
                 /\ TakesEmailOfAnother(r) =>
                        req'[r].resp = "409" /\ employees' = employees
                 /\ (/\ pc[r] = "updateEmployee"
                     /\ req[r].id \in DOMAIN employees
                     /\ employees[req[r].id].email = req[r].email) =>
                        req'[r].resp = "200"]_vars

\* C26: in every reachable state each attendance record references an existing
\* employee, also when a deletion is interleaved with a scan or a manual
\* attendance creation for the same employee.
RecordsReferenceEmployees ==
    \A a \in attendance : a.employeeId \in DOMAIN employees

\* C27: in every reachable state an attendance record with checkOut set also
\* has checkIn set.
CheckOutHasCheckIn ==
    \A a \in attendance : a.checkOut # NULL => a.checkIn # NULL

\* the call of getWeeklyStats in slot r returns
WeeklyCompletes(r) == pc[r] = "weeklyRecords" /\ pc'[r] = "idle"

\* C28: getWeeklyStats(startDate, endDate) returns exactly one entry for each
\* date from startDate to endDate, in ascending order (none when startDate is
\* after endDate), and in each entry present + late + absent is the number of
\* employees.
OneEntryPerDate ==
    [][\A r \in Procs :
          WeeklyCompletes(r) =>
              LET entries == req'[r].stats
                  startDate == req[r].startDate
                  endDate == req[r].endDate
              IN  /\ Len(entries) = IF startDate > endDate THEN 0
                                    ELSE endDate - startDate + 1
                  /\ \A i \in 1..Len(entries) :
                        /\ entries[i].date = startDate + i - 1
                        /\ entries[i].present + entries[i].late + entries[i].absent
                               = Cardinality(DOMAIN employees)]_vars

\* C29: the absences of getDashboardStats and every absent count of
\* getWeeklyStats are never negative.
AbsencesNeverNegative ==
    \A d \in Days :
        /\ getDashboardStats(employees, attendance, d).absences >= 0
        /\ LET entries == getWeeklyStats(employees, attendance, d, MaxDay,
                                         FixedZone(tz))
           IN  \A i \in 1..Len(entries) : entries[i].absent >= 0

\* C30: every capture attempt of the check-in screen eventually clears
\* isProcessing, whichever way it ends, when requests and detections settle,
\* timers fire and time passes: whenever isProcessing is set, a later state
\* has it cleared.
ProcessingEventuallyClears == client.isProcessing ~> ~client.isProcessing

\* an attempt that ended in a local processing error, with nothing under way:
\* its timer has cleared isProcessing
ErrorAttemptCleared ==
    /\ client.lastResult = "error"
    /\ ~client.isProcessing
    /\ client.detecting = 0
    /\ client.inflight = 0
    /\ client.timers = {}

=============================================================================
